---- MODULE Spec2Model ----
(***************************************************************************)
(* A model of desitarget.mtl (src/py/desitarget/mtl.py): make_mtl, the     *)
(* merge of a target catalog with a redshift catalog, make_ledger_in_hp,   *)
(* the per-HEALPixel ledger builder, and make_ledger, its driver.          *)
(*                                                                         *)
(* Tables are records [names, rows]: names is the sequence of column       *)
(* names (numpy's dtype.names, astropy's colnames) and every row is a      *)
(* tuple of cells in that order.  Python's 0-based indices are written     *)
(* 1-based here.  Python names bound to the same object are modelled by    *)
(* an alias flag: an in-place change made through the local name is also   *)
(* made to the caller's object while the flag is set.                      *)
(***************************************************************************)
EXTENDS Integers, Sequences, FiniteSets, TLC

\* ---------------------------------------------------------------- bounds
MaxId == 2          \* TARGETIDs are 1..MaxId
MaxTargets == 2     \* rows of the primary target catalog
MaxZ == 2           \* rows of the redshift catalog
MaxScnd == 1        \* rows of the secondary catalog
MaxProc == 2        \* numproc is 1..MaxProc

\* ------------------------------------------------------ program constants
\* priority <= 2: DONOTOBSERVE, OBS, DONE
TerminalCeiling == 2

\* the value standing for a masked cell of a masked astropy column
MASKED == 99

Ids == 1..MaxId
\* (PRIORITY_INIT, NUMOBS_INIT) of the input target rows
InitShapes == {<<0, 1>>, <<3, 2>>}
\* (PRIORITY_INIT, NUMOBS_INIT) of the input secondary rows
ScndShapes == {<<4, 1>>}
\* (NUMOBS, Z, ZWARN) of the input redshift rows: those of a plain table
\* and those of a masked table with the three cells masked
ZShapes == {<<1, 1, 0>>, <<MASKED, MASKED, MASKED>>}
\* values the external evaluators may return
PrioVals == {2, 3}
MoreVals == {0, 1}

InitNames == <<"TARGETID", "PRIORITY_INIT", "NUMOBS_INIT">>
LegacyNames == <<"TARGETID", "PRIORITY", "NUMOBS">>
ZcatNames == <<"TARGETID", "NUMOBS", "Z", "ZWARN">>

VARIABLES
    pc,            \* position in make_mtl
    argTargets,    \* the caller's targets object, as it is now
    argZcat,       \* the caller's zcat object, as it is now
    targets0,      \* the caller's targets object at the call
    zcat0,         \* the caller's zcat object at the call
    scnd,          \* the scnd argument
    targets,       \* the local name `targets`
    targetsIsArg,  \* `targets` is still bound to the caller's object
    zcat,          \* the local names `zcat`, later `ztargets`
    zcatIsArg,     \* `zcat`/`ztargets` is bound to the caller's object
    is_scnd,       \* the boolean mask of line 120
    zmatcher,      \* the index vector
    nmReturned,    \* what calc_numobs_more returned
    priority,      \* what calc_priority returned
    trim,          \* the trim argument
    mtl,           \* the output table
    error,         \* the exception make_mtl ended with, or "none"
    hpc,           \* position in make_ledger_in_hp
    Mxs,           \* the bitmasks main_cmx_or_sv gives for the targets
    fileNames,     \* the columns of the target files (dt.names)
    sharedcols,    \* the columns make_ledger_in_hp reads
    targs,         \* the targets of the HEALPixel
    hmtl,          \* the local name `mtl` of make_ledger_in_hp
    hreturned,     \* what make_ledger_in_hp returned: "nothing" or "table"
    herror,        \* the exception make_ledger_in_hp ended with, or "none"
    lpc,           \* position in make_ledger
    obscon,        \* the obscon argument of make_ledger
    numproc,       \* the numproc argument of make_ledger
    hdr,           \* the header of the target files: OBSCON and FILENSID
    oc,            \* the local name `oc`
    nside,         \* the local name `nside`, 0 while unbound
    npix,          \* the counter of _update_status
    ledgerCalls,   \* the calls of make_ledger_in_hp made so far
    lerror         \* the exception make_ledger ended with, or "none"

mtlvars == <<pc, argTargets, argZcat, targets0, zcat0, scnd, targets,
             targetsIsArg, zcat, zcatIsArg, is_scnd, zmatcher, nmReturned,
             priority, trim, mtl, error>>

hpvars == <<hpc, Mxs, fileNames, sharedcols, targs, hmtl, hreturned, herror>>

ledgervars == <<lpc, obscon, numproc, hdr, oc, nside, npix, ledgerCalls, lerror>>

vars == <<mtlvars, hpvars, ledgervars>>

\* ---------------------------------------------------------------- tables
SeqsUpTo(S, n) == UNION {[1..k -> S] : k \in 0..n}

Range(s) == {s[i] : i \in 1..Len(s)}

HasCol(t, c) == \E i \in 1..Len(t.names) : t.names[i] = c

ColIdx(t, c) == CHOOSE i \in 1..Len(t.names) : t.names[i] = c

\* t[c]: the column c of table t, as a sequence
Column(t, c) == [i \in 1..Len(t.rows) |-> t.rows[i][ColIdx(t, c)]]

\* t[c] = vals
SetColumn(t, c, vals) ==
    IF HasCol(t, c)
    THEN [t EXCEPT !.rows = [i \in 1..Len(t.rows) |->
                               [t.rows[i] EXCEPT ![ColIdx(t, c)] = vals[i]]]]
    ELSE [t EXCEPT !.names = Append(t.names, c),
                   !.rows = [i \in 1..Len(t.rows) |-> Append(t.rows[i], vals[i])]]

\* t[mask]: the rows of t where the boolean mask is true, in order
RECURSIVE SelectIdx(_, _)
SelectIdx(mask, n) ==
    IF n = 0 THEN <<>>
    ELSE IF mask[n] THEN Append(SelectIdx(mask, n - 1), n)
         ELSE SelectIdx(mask, n - 1)

MaskRows(t, mask) ==
    LET idx == SelectIdx(mask, Len(t.rows))
    IN  [t EXCEPT !.rows = [k \in 1..Len(idx) |-> t.rows[idx[k]]]]

\* a[idx] = vals with an index vector: assignments happen in order, so the
\* last one to an index wins
RECURSIVE ScatterInto(_, _, _, _)
ScatterInto(a, idx, vals, k) ==
    IF k = 0 THEN a
    ELSE [ScatterInto(a, idx, vals, k - 1) EXCEPT ![idx[k]] = vals[k]]

NoTable == [names |-> <<>>, rows |-> <<>>]
NoZcat == [given |-> FALSE, masked |-> FALSE, names |-> <<>>, rows |-> <<>>]
NoScnd == [given |-> FALSE, names |-> <<>>, rows |-> <<>>]

UniqueIds(rows) ==
    \A i, j \in 1..Len(rows) : rows[i][1] = rows[j][1] => i = j

\* the input catalogs are enumerated in the order of their TARGETID
Ascending(rows) ==
    \A i, j \in 1..Len(rows) : i < j => rows[i][1] < rows[j][1]

\* ------------------------------------------------------------- make_mtl
\* lines 114-118: the targets padded with the secondaries
PadTargets(t, s) ==
    LET padit == [j \in 1..Len(s.rows) |->
                    [c \in 1..Len(t.names) |->
                       IF HasCol(s, t.names[c])
                       THEN s.rows[j][ColIdx(s, t.names[c])]
                       ELSE 0]]
    IN  [t EXCEPT !.rows = t.rows \o padit]

\* lines 120-121: is_scnd = repeat(False, n); is_scnd[-nrows:] = True.
\* The slice -nrows: starts at n - nrows, but -0: is 0:, the whole array.
ScndMask(n, nrows) ==
    LET start == IF nrows = 0 THEN 0
                 ELSE IF n - nrows < 0 THEN 0 ELSE n - nrows
    IN  [i \in 1..n |-> i > start]

\* line 126: ok = np.in1d(zcat['TARGETID'], targets['TARGETID'])
ZcatOkNoFilter(z, t) == [j \in 1..Len(z.rows) |-> TRUE]

ZcatOk(z, t) ==
    [j \in 1..Len(z.rows) |->
        Column(z, "TARGETID")[j] \in Range(Column(t, "TARGETID"))]

\* line 127
NumExtra(ok) == Cardinality({j \in 1..Len(ok) : ~ok[j]})

\* lines 137-144: the names after the renaming of NUMOBS and PRIORITY
Renamed(names) ==
    [i \in 1..Len(names) |->
        IF names[i] = "NUMOBS" THEN "NUMOBS_INIT"
        ELSE IF names[i] = "PRIORITY" THEN "PRIORITY_INIT"
        ELSE names[i]]

\* line 151: the dictionary keeps, for an identifier, the last index with it
DictHas(t, tid) == tid \in Range(Column(t, "TARGETID"))

DictGet(t, tid) ==
    LET ids == Column(t, "TARGETID")
    IN  CHOOSE i \in 1..Len(ids) :
            /\ ids[i] = tid
            /\ \A k \in 1..Len(ids) : ids[k] = tid => k <= i

\* line 153
ZMatcher(t, z) ==
    [j \in 1..Len(z.rows) |-> DictGet(t, Column(z, "TARGETID")[j])]

\* lines 155-161: the masked cells of NUMOBS, Z and ZWARN are filled
FillMasked(z) ==
    LET fill(v, d) == IF v = MASKED THEN d ELSE v
    IN  [z EXCEPT !.rows = [j \in 1..Len(z.rows) |->
            [c \in 1..Len(z.names) |->
                IF z.names[c] = "NUMOBS" THEN fill(z.rows[j][c], 0)
                ELSE IF z.names[c] = "Z" THEN fill(z.rows[j][c], -1)
                ELSE IF z.names[c] = "ZWARN" THEN fill(z.rows[j][c], -1)
                ELSE z.rows[j][c]]]]

\* lines 163-167: the redshift table made up when none was passed
DefaultZtargets(t) ==
    [given |-> FALSE, masked |-> FALSE, names |-> ZcatNames,
     rows |-> [i \in 1..Len(t.rows) |-> <<Column(t, "TARGETID")[i], 0, -1, -1>>]]

\* lines 184-186: ii = (priority <= 2); ztargets['NUMOBS_MORE'][ii] = 0
ZeroTerminalSkipped(prio, nm) == nm

ZeroTerminal(prio, nm) ==
    [j \in 1..Len(nm) |-> IF prio[j] <= TerminalCeiling THEN 0 ELSE nm[j]]

\* set_obsconditions(row, scnd=flag): an external function of the row; its
\* value is kept as the application itself
SetObsconditions(t, i, flag) ==
    [scnd |-> flag, tid |-> Column(t, "TARGETID")[i]]

\* lines 189-194
ObsconMask(t, given, mask) ==
    [i \in 1..Len(t.rows) |->
        SetObsconditions(t, i, given /\ mask[i])]

\* lines 201-202: the columns every row starts with
WithDefaultsFromEvaluators(t) ==
    SetColumn(SetColumn(t, "NUMOBS_MORE", [i \in 1..Len(t.rows) |-> 0]),
              "PRIORITY", [i \in 1..Len(t.rows) |-> 0])

WithDefaults(t) ==
    SetColumn(SetColumn(t, "NUMOBS_MORE", Column(t, "NUMOBS_INIT")),
              "PRIORITY", Column(t, "PRIORITY_INIT"))

\* lines 197-206
Assemble(t, obsconmask, zm, prio, nm) ==
    LET m0 == WithDefaults(t)
        m1 == SetColumn(m0, "OBSCONDITIONS", obsconmask)
        m2 == SetColumn(m1, "PRIORITY",
                        ScatterInto(Column(m1, "PRIORITY"), zm, prio, Len(zm)))
    IN  SetColumn(m2, "NUMOBS_MORE",
                  ScatterInto(Column(m2, "NUMOBS_MORE"), zm, nm, Len(zm)))

\* lines 210-214
Trimmed(m) ==
    MaskRows(m, [i \in 1..Len(m.rows) |-> Column(m, "NUMOBS_MORE")[i] > 0])

\* the whole of make_mtl as a function of its arguments and of what the
\* evaluators return (lines 109-223), for a call that raises nothing
MakeMtlFrom(t0, s, z0, pr, nm, tr) ==
    LET t1 == IF s.given THEN PadTargets(t0, s) ELSE t0
        mask == IF s.given THEN ScndMask(Len(t1.rows), Len(s.rows)) ELSE <<>>
        ok == ZcatOk(z0, t1)
        z1 == IF z0.given /\ NumExtra(ok) > 0 THEN MaskRows(z0, ok) ELSE z0
        t2 == [t1 EXCEPT !.names = Renamed(t1.names)]
        zm == IF z1.given THEN ZMatcher(t2, z1) ELSE [i \in 1..Len(t2.rows) |-> i]
        m == Assemble(t2, ObsconMask(t2, s.given, mask), zm, pr, ZeroTerminal(pr, nm))
    IN  IF tr THEN Trimmed(m) ELSE m

\* ------------------------------------------------- make_mtl, step by step
TargetTables ==
    {[names |-> nm, rows |-> r] :
        nm \in {InitNames, LegacyNames},
        r \in {x \in SeqsUpTo({<<id, s[1], s[2]>> : id \in Ids, s \in InitShapes},
                              MaxTargets) : Ascending(x)}}

ScndTables ==
    {NoScnd} \cup
    {[given |-> TRUE, names |-> InitNames, rows |-> r] :
        r \in {x \in SeqsUpTo({<<id, s[1], s[2]>> : id \in Ids, s \in ScndShapes},
                              MaxScnd) : Ascending(x)}}

ZcatTables ==
    {NoZcat} \cup
    {[given |-> TRUE,
      masked |-> sh[1] = MASKED,
      names |-> ZcatNames,
      rows |-> [j \in 1..Len(ids) |-> <<ids[j], sh[1], sh[2], sh[3]>>]] :
        ids \in SeqsUpTo(Ids, MaxZ), sh \in ZShapes}

\* ---------------------------------------------------- the states at rest
HpIdle ==
    /\ hpc = "idle"
    /\ Mxs = <<>>
    /\ fileNames = <<>>
    /\ sharedcols = <<>>
    /\ targs = NoTable
    /\ hmtl = NoTable
    /\ hreturned = "nothing"
    /\ herror = "none"

LedgerIdle ==
    /\ lpc = "idle"
    /\ obscon = <<>>
    /\ numproc = 1
    /\ hdr = [OBSCON |-> <<>>, FILENSID |-> 1]
    /\ oc = <<>>
    /\ nside = 0
    /\ npix = 0
    /\ ledgerCalls = <<>>
    /\ lerror = "none"

MtlIdle ==
    /\ targets0 = NoTable
    /\ scnd = NoScnd
    /\ zcat0 = NoZcat
    /\ argTargets = NoTable
    /\ argZcat = NoZcat
    /\ targets = NoTable
    /\ targetsIsArg = FALSE
    /\ zcat = NoZcat
    /\ zcatIsArg = FALSE
    /\ is_scnd = <<>>
    /\ zmatcher = <<>>
    /\ nmReturned = <<>>
    /\ priority = <<>>
    /\ trim = FALSE
    /\ mtl = NoTable
    /\ error = "none"
    /\ pc = "idle"

\* the state at the call: the identifiers of the targets and of the
\* secondaries are all different
MtlInit ==
    /\ targets0 \in TargetTables
    /\ scnd \in ScndTables
    /\ UniqueIds(targets0.rows \o scnd.rows)
    /\ zcat0 \in ZcatTables
    /\ argTargets = targets0
    /\ argZcat = zcat0
    /\ targets = targets0
    /\ targetsIsArg = TRUE
    /\ zcat = zcat0
    /\ zcatIsArg = zcat0.given
    /\ is_scnd = <<>>
    /\ zmatcher = <<>>
    /\ nmReturned = <<>>
    /\ priority = <<>>
    /\ trim = FALSE
    /\ mtl = NoTable
    /\ error = "none"
    /\ pc = "pad"
    /\ HpIdle
    /\ LedgerIdle

\* lines 109-122
Pad ==
    /\ UNCHANGED <<hpvars, ledgervars>>
    /\ pc = "pad"
    /\ IF scnd.given
       THEN /\ targets' = PadTargets(targets, scnd)
            /\ targetsIsArg' = FALSE
            /\ is_scnd' = ScndMask(Len(targets.rows) + Len(scnd.rows), Len(scnd.rows))
       ELSE UNCHANGED <<targets, targetsIsArg, is_scnd>>
    /\ pc' = "filter"
    /\ UNCHANGED <<argTargets, argZcat, targets0, zcat0, scnd, zcat, zcatIsArg,
                   zmatcher, nmReturned, priority, trim, mtl, error>>

\* lines 124-131
Filter ==
    /\ UNCHANGED <<hpvars, ledgervars>>
    /\ pc = "filter"
    /\ IF zcat.given /\ NumExtra(ZcatOk(zcat, targets)) > 0
       THEN /\ zcat' = MaskRows(zcat, ZcatOk(zcat, targets))
            /\ zcatIsArg' = FALSE
       ELSE UNCHANGED <<zcat, zcatIsArg>>
    /\ pc' = "rename"
    /\ UNCHANGED <<argTargets, argZcat, targets0, zcat0, scnd, targets,
                   targetsIsArg, is_scnd, zmatcher, nmReturned, priority, trim,
                   mtl, error>>

\* lines 133-144: the renaming is done in place
Rename ==
    /\ UNCHANGED <<hpvars, ledgervars>>
    /\ pc = "rename"
    /\ targets' = [targets EXCEPT !.names = Renamed(targets.names)]
    /\ argTargets' = IF targetsIsArg
                     THEN [argTargets EXCEPT !.names = Renamed(argTargets.names)]
                     ELSE argTargets
    /\ pc' = "align"
    /\ UNCHANGED <<argZcat, targets0, zcat0, scnd, targetsIsArg, zcat, zcatIsArg,
                   is_scnd, zmatcher, nmReturned, priority, trim, mtl, error>>

\* lines 146-170
Align ==
    /\ UNCHANGED <<hpvars, ledgervars>>
    /\ pc = "align"
    /\ \/ /\ zcat.given
          /\ IF \A j \in 1..Len(zcat.rows) :
                    DictHas(targets, Column(zcat, "TARGETID")[j])
             THEN /\ zmatcher' = ZMatcher(targets, zcat)
                  /\ zcat' = IF zcat.masked THEN FillMasked(zcat) ELSE zcat
                  /\ argZcat' = IF zcat.masked /\ zcatIsArg
                                THEN FillMasked(argZcat)
                                ELSE argZcat
                  /\ pc' = "index"
                  /\ UNCHANGED error
             ELSE /\ error' = "KeyError"
                  /\ pc' = "failed"
                  /\ UNCHANGED <<zmatcher, zcat, argZcat>>
          /\ UNCHANGED zcatIsArg
       \/ /\ ~zcat.given
          /\ zcat' = DefaultZtargets(targets)
          /\ zmatcher' = [i \in 1..Len(targets.rows) |-> i]
          /\ pc' = "index"
          /\ UNCHANGED <<zcatIsArg, argZcat, error>>
    /\ UNCHANGED <<argTargets, targets0, zcat0, scnd, targets, targetsIsArg,
                   is_scnd, nmReturned, priority, trim, mtl>>

\* lines 172-173: targets[zmatcher].  np.array([]) of an empty list is an
\* array of floats, which newer numpy refuses as an index and older numpy
\* takes as the empty selection
IndexTargets ==
    /\ UNCHANGED <<hpvars, ledgervars>>
    /\ pc = "index"
    /\ \/ /\ pc' = "evaluate"
          /\ UNCHANGED error
       \/ /\ zcat.given
          /\ Len(zmatcher) = 0
          /\ error' = "IndexError"
          /\ pc' = "failed"
    /\ UNCHANGED <<argTargets, argZcat, targets0, zcat0, scnd, targets,
                   targetsIsArg, zcat, zcatIsArg, is_scnd, zmatcher, nmReturned,
                   priority, trim, mtl>>

\* lines 175-186: the evaluators are external; they return one value for
\* each row of ztargets.  NUMOBS_MORE becomes a column of ztargets
Evaluate ==
    /\ UNCHANGED <<hpvars, ledgervars>>
    /\ pc = "evaluate"
    /\ \E nm \in [1..Len(zmatcher) -> MoreVals], pr \in [1..Len(zmatcher) -> PrioVals] :
          /\ nmReturned' = nm
          /\ priority' = pr
          /\ zcat' = SetColumn(zcat, "NUMOBS_MORE", ZeroTerminal(pr, nm))
          /\ argZcat' = IF zcatIsArg
                        THEN SetColumn(argZcat, "NUMOBS_MORE", ZeroTerminal(pr, nm))
                        ELSE argZcat
    /\ pc' = "assemble"
    /\ UNCHANGED <<argTargets, targets0, zcat0, scnd, targets, targetsIsArg,
                   zcatIsArg, is_scnd, zmatcher, trim, mtl, error>>

\* lines 188-206
AssembleMtl ==
    /\ UNCHANGED <<hpvars, ledgervars>>
    /\ pc = "assemble"
    /\ mtl' = Assemble(targets, ObsconMask(targets, scnd.given, is_scnd),
                       zmatcher, priority, Column(zcat, "NUMOBS_MORE"))
    /\ pc' = "trim"
    /\ UNCHANGED <<argTargets, argZcat, targets0, zcat0, scnd, targets,
                   targetsIsArg, zcat, zcatIsArg, is_scnd, zmatcher, nmReturned,
                   priority, trim, error>>

\* lines 208-223
Trim ==
    /\ UNCHANGED <<hpvars, ledgervars>>
    /\ pc = "trim"
    /\ \E tr \in BOOLEAN :
          /\ trim' = tr
          /\ mtl' = IF tr THEN Trimmed(mtl) ELSE mtl
    /\ pc' = "done"
    /\ UNCHANGED <<argTargets, argZcat, targets0, zcat0, scnd, targets,
                   targetsIsArg, zcat, zcatIsArg, is_scnd, zmatcher, nmReturned,
                   priority, error>>

MtlNext ==
    \/ Pad
    \/ Filter
    \/ Rename
    \/ Align
    \/ IndexTargets
    \/ Evaluate
    \/ AssembleMtl
    \/ Trim

Spec == MtlInit /\ [][MtlNext]_vars

\* ------------------------------------------------------ make_mtl: claims
ZcatIds == IF zcat0.given THEN Range(Column(zcat0, "TARGETID")) ELSE {}

\* the rows of the caller's zcat whose identifier a target or a secondary has
KnownZcat ==
    LET ids == Range(Column(targets0, "TARGETID")) \cup
               (IF scnd.given THEN Range(Column(scnd, "TARGETID")) ELSE {})
        Known(r) == r[1] \in ids
    IN  [zcat0 EXCEPT !.rows = SelectSeq(zcat0.rows, Known)]

\* C1: when a zcat was passed, every row of the output whose TARGETID is not
\* in the zcat has PRIORITY = PRIORITY_INIT and NUMOBS_MORE = NUMOBS_INIT,
\* whatever the evaluators returned
DefaultPreservation ==
    (pc \in {"trim", "done"} /\ zcat0.given) =>
        \A i \in 1..Len(mtl.rows) :
            Column(mtl, "TARGETID")[i] \notin ZcatIds =>
                /\ Column(mtl, "PRIORITY")[i] = Column(mtl, "PRIORITY_INIT")[i]
                /\ Column(mtl, "NUMOBS_MORE")[i] = Column(mtl, "NUMOBS_INIT")[i]

DefaultPreservationWitness ==
    /\ pc = "done"
    /\ zcat0.given
    /\ \E i \in 1..Len(mtl.rows) :
          /\ Column(mtl, "TARGETID")[i] \notin ZcatIds
          /\ Column(mtl, "PRIORITY_INIT")[i] # 0
    /\ \E i \in 1..Len(mtl.rows) :
          /\ Column(mtl, "TARGETID")[i] \in ZcatIds
          /\ Column(mtl, "PRIORITY")[i] # Column(mtl, "PRIORITY_INIT")[i]

\* C2: no row of the output that the zcat (or, without one, the made-up
\* zcat) matches has a terminal PRIORITY and a nonzero NUMOBS_MORE; and when
\* the zcat has one row for an identifier, a terminal priority returned for
\* that row leaves NUMOBS_MORE 0 in the matched row of the output
TerminalZeroing ==
    /\ pc \in {"trim", "done"} =>
          \A i \in 1..Len(mtl.rows) :
              (/\ zcat0.given => Column(mtl, "TARGETID")[i] \in ZcatIds
               /\ Column(mtl, "PRIORITY")[i] <= TerminalCeiling)
              => Column(mtl, "NUMOBS_MORE")[i] = 0
    /\ (/\ pc = "trim"
        /\ \A j, k \in 1..Len(zmatcher) : zmatcher[j] = zmatcher[k] => j = k)
       => \A j \in 1..Len(zmatcher) :
              priority[j] <= TerminalCeiling =>
                  /\ Column(mtl, "PRIORITY")[zmatcher[j]] = priority[j]
                  /\ Column(mtl, "NUMOBS_MORE")[zmatcher[j]] = 0

TerminalZeroingWitness ==
    /\ pc = "trim"
    /\ zcat0.given
    /\ \E j \in 1..Len(zmatcher) :
          /\ priority[j] = TerminalCeiling
          /\ nmReturned[j] # 0
          /\ Column(mtl, "NUMOBS_MORE")[zmatcher[j]] = 0

InputsUnchanged ==
    pc \in {"done", "failed"} => (argTargets = targets0 /\ argZcat = zcat0)

\* C9: with P primary rows and S secondary rows, is_scnd is true at the S
\* appended rows only, and the OBSCONDITIONS of the P primary rows are those
\* of the primary derivation
ScndMaskExact ==
    LET P == Len(targets0.rows)
    IN  /\ (scnd.given /\ pc # "pad") =>
              is_scnd = [i \in 1..(P + Len(scnd.rows)) |-> i > P]
        /\ pc = "trim" =>
              \A i \in 1..Len(mtl.rows) :
                  Column(mtl, "OBSCONDITIONS")[i] = SetObsconditions(mtl, i, i > P)

\* ------------------------------------------------------ make_ledger_in_hp
\* lines 22-31: the names of mtldatamodel
MtlDataModelNames ==
    <<"RA", "DEC", "PARALLAX", "PMRA", "PMDEC", "REF_EPOCH", "DESI_TARGET",
      "BGS_TARGET", "MWS_TARGET", "SCND_TARGET", "TARGETID", "SUBPRIORITY",
      "OBSCONDITIONS", "PRIORITY_INIT", "NUMOBS_INIT", "PRIORITY", "NUMOBS",
      "NUMOBS_MORE", "Z", "ZWARN", "TIMESTAMP", "TARGET_STATE">>

\* line 250: the columns that mtldatamodel and the target files share (the
\* order of a Python set is not fixed; the order of the file is taken)
SharedCols(names) ==
    LET InDataModel(c) == c \in Range(MtlDataModelNames)
    IN  SelectSeq(names, InDataModel)

\* the bitmasks of a flavor: for every bit, in the order of names(), its
\* name and its UNOBS priority (hasUnobs is false when it has none)
Bit(name, hasUnobs, unobs) == [name |-> name, hasUnobs |-> hasUnobs, unobs |-> unobs]

MaskSets ==
    {<< <<Bit("LRG", TRUE, 3), Bit("ELG", TRUE, 3), Bit("SKY", FALSE, 0)>>,
        <<Bit("BGS_FAINT", TRUE, 4)>> >>,
     << <<Bit("STD", TRUE, 0), Bit("QSO", TRUE, 4)>>,
        <<Bit("MWS_MAIN", TRUE, 4), Bit("MWS_WD", TRUE, 3)>> >>}

TargetRowSeqs ==
    {x \in SeqsUpTo({<<id, s[1], s[2]>> : id \in Ids, s \in InitShapes \cup ScndShapes},
                    MaxTargets) : Ascending(x)}

HpInit ==
    /\ hpc = "header"
    /\ Mxs \in MaskSets
    /\ fileNames \in {Append(InitNames, "MORPHTYPE"), Append(LegacyNames, "MORPHTYPE")}
    /\ sharedcols = <<>>
    /\ targs = NoTable
    /\ hmtl = NoTable
    /\ hreturned = "nothing"
    /\ herror = "none"
    /\ MtlIdle
    /\ LedgerIdle

\* lines 246-250
HpReadHeader ==
    /\ hpc = "header"
    /\ sharedcols' = SharedCols(fileNames)
    /\ hpc' = "read"
    /\ UNCHANGED <<Mxs, fileNames, targs, hmtl, hreturned, herror>>
    /\ UNCHANGED <<mtlvars, ledgervars>>

\* lines 252-253: the targets of the HEALPixel, with the shared columns
HpReadTargets ==
    /\ hpc = "read"
    /\ \E r \in TargetRowSeqs : targs' = [names |-> sharedcols, rows |-> r]
    /\ hpc' = "mtl"
    /\ UNCHANGED <<Mxs, fileNames, sharedcols, hmtl, hreturned, herror>>
    /\ UNCHANGED <<mtlvars, ledgervars>>

\* lines 255-256: make_mtl(targs, obscon), with no zcat, no scnd and
\* trim=False; make_mtl renames the columns of targs in place
HpMakeMtl ==
    /\ hpc = "mtl"
    /\ \E nm \in [1..Len(targs.rows) -> MoreVals], pr \in [1..Len(targs.rows) -> PrioVals] :
          hmtl' = MakeMtlFrom(targs, NoScnd, NoZcat, pr, nm, FALSE)
    /\ targs' = [targs EXCEPT !.names = Renamed(targs.names)]
    /\ hpc' = "timestamp"
    /\ UNCHANGED <<Mxs, fileNames, sharedcols, hreturned, herror>>
    /\ UNCHANGED <<mtlvars, ledgervars>>

\* lines 258-259: the module binds no name `datetime`, so the evaluation of
\* datetime.utcnow() raises NameError and lines 260-286 are never run
HpTimestamp ==
    /\ hpc = "timestamp"
    /\ herror' = "NameError"
    /\ hpc' = "failed"
    /\ UNCHANGED <<Mxs, fileNames, sharedcols, targs, hmtl, hreturned>>
    /\ UNCHANGED <<mtlvars, ledgervars>>

HpNext ==
    \/ HpReadHeader
    \/ HpReadTargets
    \/ HpMakeMtl
    \/ HpTimestamp

SpecHp == HpInit /\ [][HpNext]_vars

\* ------------------------------------------- make_ledger_in_hp: claims
\* C4: when make_ledger_in_hp has ended, it has returned the table of the
\* HEALPixel: one row for each target, with the columns TIMESTAMP and
\* TARGET_STATE
ReturnsFinishedTable ==
    hpc \in {"done", "failed"} =>
        /\ herror = "none"
        /\ hreturned = "table"
        /\ Len(hmtl.rows) = Len(targs.rows)
        /\ HasCol(hmtl, "TIMESTAMP")
        /\ HasCol(hmtl, "TARGET_STATE")

\* the bits of all the flavor groups, in the order of the enumeration
RECURSIVE FlatBits(_, _)
FlatBits(masks, k) ==
    IF k = 0 THEN <<>> ELSE FlatBits(masks, k - 1) \o masks[k]

\* the label the row of initial priority p is to get
ClaimedState(masks, p) ==
    LET bits == FlatBits(masks, Len(masks))
        hits == {k \in 1..Len(bits) : bits[k].hasUnobs /\ bits[k].unobs = p}
    IN  IF p = 0 THEN "CALIBRATION"
        ELSE IF hits = {} THEN "NOSTATE"
        ELSE bits[CHOOSE k \in hits : \A h \in hits : k <= h].name

\* C5: when make_ledger_in_hp has ended, every row has the TARGET_STATE
\* of its PRIORITY_INIT: CALIBRATION for 0, else the first bitname with
\* that UNOBS priority, else NOSTATE
StateFromInitialPriority ==
    hpc \in {"done", "failed"} =>
        /\ HasCol(hmtl, "TARGET_STATE")
        /\ \A i \in 1..Len(hmtl.rows) :
              Column(hmtl, "TARGET_STATE")[i] =
                  ClaimedState(Mxs, Column(hmtl, "PRIORITY_INIT")[i])

\* ------------------------------------------------------------ make_ledger
DARK == <<"D", "A", "R", "K">>
GRAY == <<"G", "R", "A", "Y">>
BRIGHT == <<"B", "R", "I", "G", "H", "T">>
DARKGRAY == DARK \o <<"|">> \o GRAY

\* Python's `a in b` for strings: a is a substring of b
Contains(a, b) ==
    \E i \in 0..(Len(b) - Len(a)) : SubSeq(b, i + 1, i + Len(a)) = a

\* line 312: obscon not in oc
ObsconNotInSwapped(a, b) == ~Contains(b, a)

ObsconNotIn(a, b) == ~Contains(a, b)

\* hp.nside2npix(nside), the number of HEALPixels at nside
Nside2Npix(n) == 12 * n * n

LedgerInit ==
    /\ lpc = "header"
    /\ obscon \in {DARK, GRAY, BRIGHT, DARKGRAY}
    /\ numproc \in 1..MaxProc
    /\ hdr \in [OBSCON : {DARK, BRIGHT, DARKGRAY}, FILENSID : {1, 2, 4}]
    /\ oc = <<>>
    /\ nside = 0
    /\ npix = 0
    /\ ledgerCalls = <<>>
    /\ lerror = "none"
    /\ MtlIdle
    /\ HpIdle

\* lines 307-311
LReadHeader ==
    /\ lpc = "header"
    /\ oc' = hdr.OBSCON
    /\ lpc' = "check"
    /\ UNCHANGED <<obscon, numproc, hdr, nside, npix, ledgerCalls, lerror>>
    /\ UNCHANGED <<mtlvars, hpvars>>

\* lines 312-315: on a mismatch the message is made and log.critical(msg)
\* is evaluated; make_ledger binds no name `log` and neither does the
\* module, so NameError is raised there, before the ValueError of line 315
LCheckObscon ==
    /\ lpc = "check"
    /\ IF ObsconNotIn(obscon, oc)
       THEN /\ lerror' = "NameError"
            /\ lpc' = "failed"
       ELSE /\ lpc' = "nside"
            /\ UNCHANGED lerror
    /\ UNCHANGED <<obscon, numproc, hdr, oc, nside, npix, ledgerCalls>>
    /\ UNCHANGED <<mtlvars, hpvars>>

\* lines 317-318
LNside ==
    /\ lpc = "nside"
    /\ nside' = hdr.FILENSID
    /\ lpc' = "npixels"
    /\ UNCHANGED <<obscon, numproc, hdr, oc, npix, ledgerCalls, lerror>>
    /\ UNCHANGED <<mtlvars, hpvars>>

\* line 319: the module binds no name `hp`, so hp.nside2npix(nside) raises
\* NameError and lines 320-351 are never run (there, the calls of lines 344
\* and 347 name _make_legder_in_hp and _make_bright_star_mx, which no line
\* defines either)
LNpixels ==
    /\ lpc = "npixels"
    /\ lerror' = "NameError"
    /\ lpc' = "failed"
    /\ UNCHANGED <<obscon, numproc, hdr, oc, nside, npix, ledgerCalls>>
    /\ UNCHANGED <<mtlvars, hpvars>>

LedgerNext ==
    \/ LReadHeader
    \/ LCheckObscon
    \/ LNside
    \/ LNpixels

SpecLedger == LedgerInit /\ [][LedgerNext]_vars

\* ------------------------------------------------- make_ledger: claims
HeaderMismatch == ~Contains(obscon, hdr.OBSCON)

\* C3: when the header check passes, make_ledger ends normally, having
\* called make_ledger_in_hp once for every HEALPixel 0..N-1 with the
\* requested obscon and the nside of the header
FanOut ==
    (lpc \in {"done", "failed"} /\ ~HeaderMismatch) =>
        /\ lerror = "none"
        /\ Len(ledgerCalls) = Nside2Npix(hdr.FILENSID)
        /\ \A pixnum \in 0..(Nside2Npix(hdr.FILENSID) - 1) :
              Cardinality({k \in 1..Len(ledgerCalls) :
                  ledgerCalls[k] = [pixnum |-> pixnum, obscon |-> obscon,
                                    nside |-> hdr.FILENSID]}) = 1

\* C7: when the obscon asked for is not in the OBSCON of the header,
\* make_ledger goes no further than the check: it ends with an error, the
\* nside is never read, no HEALPixel is counted and make_ledger_in_hp is
\* never called
EagerCheck ==
    HeaderMismatch =>
        /\ lpc \in {"header", "check", "failed"}
        /\ lpc = "failed" => lerror # "none"
        /\ nside = 0
        /\ npix = 0
        /\ ledgerCalls = <<>>

EagerCheckWitness ==
    /\ HeaderMismatch
    /\ lpc = "failed"
    /\ lerror # "none"

\* C10: when the header check passes and make_ledger has ended, the counter
\* has counted every HEALPixel once
ProgressCounter ==
    (lpc \in {"done", "failed"} /\ ~HeaderMismatch) =>
        npix = Nside2Npix(hdr.FILENSID)

====
